---- MODULE Spec2Model ----
(***************************************************************************)
(* Model of the interactive viewport of ModelViewer                        *)
(* (ViewerGraphicsWindow.cpp, ModelViewer.cpp): camera/transform state,    *)
(* input tracking, shader loading with fallback, model loading and the     *)
(* frame-time window.                                                      *)
(*                                                                         *)
(* Numbers.  C++ float values are modelled as fixed-point integers with    *)
(* FP units per 1.0 (three decimals); products and quotients truncate,     *)
(* which stands for float rounding.  Seconds are therefore milliseconds,   *)
(* degrees are millidegrees.  Pixel coordinates and counters are plain     *)
(* integers.  Where a property turns on the last bit of a float (the       *)
(* strafe total, the speed modifiers), Update()'s arithmetic is followed   *)
(* in IEEE single precision as well, in the variable `exact`.              *)
(***************************************************************************)
EXTENDS Integers, Sequences, FiniteSets, TLC

VARIABLES
    initialized,          \* bool initialized
    m_currentModel,       \* Model m_currentModel: [m_isValid, m_AABBMin, m_AABBMax]
    width, height,        \* QWidget::width(), QWidget::height()
    m_scaleMatrix,        \* QMatrix4x4 m_scaleMatrix: always a uniform scale, kept as its factor
    rotX,                 \* float rotX: yaw
    rotY,                 \* float rotY: pitch
    m_transMatrix,        \* QMatrix4x4 m_transMatrix: always a translation, kept as <<x, y, z>>
    m_pressedKeys,        \* QSet<int> m_pressedKeys
    m_leftMousePressed,   \* bool m_leftMousePressed
    m_rightMousePressed,  \* bool m_rightMousePressed
    lastX, lastY,         \* int lastX, lastY
    m_program,            \* QOpenGLShaderProgram* m_program: [vert, frag, linked]
    currentVertFile,      \* QString currentVertFile
    currentFragFile,      \* QString currentFragFile
    locations,            \* m_posAttr, m_colAttr, m_matrixUniform, m_normAttr, ... as one table
    files,                \* contents of the shader files on disk (editable outside the program)
    m_updateTimer,        \* QElapsedTimer m_updateTimer: TRUE once restart() has run
    m_frametimes,         \* QList<float> m_frametimes
    fps,                  \* const int fps of RenderText, as drawn
    seconds,              \* const float seconds of the last paintGL
    m_frame,              \* int m_frame
    call,                 \* the last load/unload call: [op, ret, sig] (sig = signals emitted)
    cleared,              \* TRUE from ClearKeyboard() until the next keyPressEvent
    nInput,               \* pointer and resize events delivered so far
    aborted,              \* TRUE once a Q_ASSERT has failed in a build that checks them
    exact                 \* Update()'s float arithmetic, bit for bit: [x, t, speed, sec]

camera == <<m_scaleMatrix, rotX, rotY, m_transMatrix>>
input == <<m_pressedKeys, m_leftMousePressed, m_rightMousePressed, lastX, lastY>>
shader == <<m_program, currentVertFile, currentFragFile, locations>>
frames == <<m_updateTimer, m_frametimes, fps, seconds, m_frame>>
vars == <<initialized, m_currentModel, width, height, camera, input, shader, files,
          frames, call, cleared, nInput, aborted, exact>>

----------------------------------------------------------------------------
(* Fixed-point arithmetic standing for float arithmetic *)

FP == 1000

Abs(x) == IF x < 0 THEN -x ELSE x
Sgn(x) == IF x < 0 THEN -1 ELSE 1
Min(a, b) == IF b < a THEN b ELSE a
Max(a, b) == IF a < b THEN b ELSE a

\* a * b for fixed-point a, b (truncating toward zero, computed without overflow)
FMul(a, b) ==
    LET m == Abs(a)
        n == Abs(b)
        p == (m \div FP) * n + ((m % FP) * n) \div FP
    IN Sgn(a) * Sgn(b) * p

\* a / b for fixed-point a, b with b # 0 (truncating toward zero)
FDiv(a, b) == Sgn(a) * Sgn(b) * ((Abs(a) * FP) \div Abs(b))

\* qRadiansToDegrees: x * (180 / pi)
qRadiansToDegrees(x) ==
    LET m == Abs(x) IN Sgn(x) * ((m \div FP) * 57296 + ((m % FP) * 57296) \div FP)

\* qDegreesToRadians: x * (pi / 180)
qDegreesToRadians(x) == Sgn(x) * ((Abs(x) * 17453) \div (FP * FP))

RECURSIVE SqrtSearch(_, _, _)
SqrtSearch(n, lo, hi) ==
    IF lo >= hi THEN lo
    ELSE LET mid == (lo + hi + 1) \div 2
         IN IF mid * mid <= n THEN SqrtSearch(n, mid, hi) ELSE SqrtSearch(n, lo, mid - 1)

\* integer square root
ISqrt(n) == SqrtSearch(n, 0, 46340)

\* QVector3D::length() of a fixed-point vector
Length(v) == ISqrt(v[1] * v[1] + v[2] * v[2] + v[3] * v[3])

RECURSIVE AtanSeries(_, _, _, _)
AtanSeries(x2, term, k, n) ==
    IF k > n \/ term = 0 THEN 0
    ELSE (IF k % 2 = 0 THEN 1 ELSE -1) * (term \div (2 * k + 1))
         + AtanSeries(x2, FMul(term, x2), k + 1, n)

\* qAtan(x) for |x| <= 1: the arctangent series x - x^3/3 + x^5/5 - ...
qAtan(x) == AtanSeries(FMul(x, x), x, 0, 40)

\* a clamp that forgets the lower limit
ClampPitchUpperOnly(r) == Min(r, 90 * FP)

\* std::max(-90.f, std::min(rotY, 90.f))
ClampPitch(r) == Max(-90 * FP, Min(r, 90 * FP))

RECURSIVE SumSeq(_)
SumSeq(s) == IF s = <<>> THEN 0 ELSE Head(s) + SumSeq(Tail(s))

\* round(n / total) for an integer count n and a fixed-point total # 0
\* (C round(): halves away from zero)
RoundDiv(n, total) ==
    LET num == n * FP
        den == Abs(total)
        q == (2 * num + den) \div (2 * den)
    IN Sgn(total) * q

RECURSIVE SinSeries(_, _, _, _)
SinSeries(x2, term, k, n) ==
    IF k > n \/ term = 0 THEN 0
    ELSE term + SinSeries(x2, -Sgn(term) * (FMul(Abs(term), x2) \div ((2 * k + 2) * (2 * k + 3))),
                           k + 1, n)

\* qSin(x), x in radians: x - x^3/3! + x^5/5! - ...
qSin(x) == SinSeries(FMul(x, x), x, 0, 12)

RECURSIVE CosSeries(_, _, _, _)
CosSeries(x2, term, k, n) ==
    IF k > n \/ term = 0 THEN 0
    ELSE term + CosSeries(x2, -Sgn(term) * (FMul(Abs(term), x2) \div ((2 * k + 1) * (2 * k + 2))),
                           k + 1, n)

\* qCos(x), x in radians: 1 - x^2/2! + x^4/4! - ...
qCos(x) == CosSeries(FMul(x, x), FP, 0, 12)

\* qTan(x), x in radians, |x| < pi/2
qTan(x) == FDiv(qSin(x), qCos(x))

----------------------------------------------------------------------------
(* IEEE single precision, bit for bit, for the arithmetic of Update().     *)
(* A float is kept as an integer count of units of 2^-26; every value of   *)
(* magnitude below 2^24 units (0.25) that the model forms is a whole       *)
(* number of units, and from 2^24 units on a float has 24 significant      *)
(* bits, so its spacing is Quantum(v) units.                               *)

\* units per 1.0f
F32One == 67108864
\* 2^24: the first magnitude that no longer has every unit
F32Full == 16777216

RECURSIVE Quantum(_)
\* spacing of the floats around magnitude v
Quantum(v) == IF v < F32Full THEN 1 ELSE 2 * Quantum(v \div 2)

\* n / d (n >= 0, d > 0) rounded to the nearest float, ties to the even significand
RoundRatio(n, d) ==
    LET q == Quantum(n \div d)
        den == d * q
        k == n \div den
        r == n % den
    IN IF 2 * r < den THEN k * q
       ELSE IF 2 * r > den THEN (k + 1) * q
       ELSE IF k % 2 = 0 THEN k * q ELSE (k + 1) * q

\* the float nearest to the exact value v: the result of a float + or *
F32(v) == Sgn(v) * RoundRatio(Abs(v), 1)

\* a / 3.f (exact for the quotients of 2^23 units and more that the model forms)
F32Div3(a) == Sgn(a) * RoundRatio(Abs(a), 3)

\* float seconds as the model's milliseconds
Ms(sec32) == ((sec32 \div 1024) * FP) \div 65536

----------------------------------------------------------------------------
(* Settings: the defaults of loadSettings() *)

panXSensitivity == 10
panYSensitivity == 10
xRotateSensitivity == 600
yRotateSensitivity == 600
movementSensitivity == 4000
zoomSensitivity == 1
fieldOfView == 45000
nearPlane == 100
farPlane == 100000

\* resetView's defaults and factors
DefaultPitch == 30000
CameraDistance == 4000
Headroom == 1600
\* panAdj's reference height and reference field of view
RefHeight == 480
RefFov == 60000
\* RenderText's window length, 0.25f
FrameWindow == 250

----------------------------------------------------------------------------
(* Bounds of the model *)

MaxFrames == 2       \* paintGL runs while m_frame < MaxFrames
MaxLen == 4          \* paintGL runs while the frame window holds at most MaxLen entries
MaxTrans == 9000     \* a step is taken only if |translation x|, |y| stay within MaxTrans
MaxYaw == 130000     \* ... and |rotX| within MaxYaw
MaxScale == 6000     \* ... and |scale factor| within MaxScale
MaxInput == 1        \* mouse moves, wheel turns and resizes delivered in a run
MaxFrames32 == 6     \* ticks of the one-second strafe
MaxMoves == 2        \* mouse moves of a run that follows the pointer alone

\* Keys are named by the default binding of each setting read in Update():
\* "Shift", "Ctrl", "W", "S", "A", "D", "E", "Q", "Up", "Down", "Right", "Left".
\* cursor positions of mouse events
Positions == {<<0, 0>>, <<100, 150>>}
Buttons == {"Left", "Right"}
\* QWheelEvent::angleDelta().y(): one notch either way
WheelDeltas == {-120, 120}
\* frame durations (milliseconds) a running timer reports
Deltas == {0, 16, 125, 250, 300}
\* nsecsElapsed() of a timer that was never started is undefined: any value
UndefinedDeltas == {-2000, 2000}
\* window sizes
Sizes == {<<640, 480>>, <<480, 640>>, <<640, 0>>}

----------------------------------------------------------------------------
(* Models: what ModelLoader::LoadModel returns for a path, and Model() *)

Vec(x, y, z) == <<x, y, z>>

\* Model(): no meshes, not valid, empty bounding box
DefaultModel == [m_isValid |-> FALSE, m_AABBMin |-> Vec(0, 0, 0), m_AABBMax |-> Vec(0, 0, 0)]

ModelPaths == {"cube.obj", "slab.obj", "pillar.obj", "broken.obj"}

\* ModelLoader::LoadModel(filepath)
LoadModel(filepath) ==
    CASE filepath = "cube.obj" ->
           [m_isValid |-> TRUE, m_AABBMin |-> Vec(-1000, -1000, -1000),
            m_AABBMax |-> Vec(1000, 1000, 1000)]
      [] filepath = "slab.obj" ->
           [m_isValid |-> TRUE, m_AABBMin |-> Vec(-3000, 0, -500),
            m_AABBMax |-> Vec(3000, 200, 500)]
      [] filepath = "pillar.obj" ->
           [m_isValid |-> TRUE, m_AABBMin |-> Vec(-100, -1000, -100),
            m_AABBMax |-> Vec(100, 1000, 100)]
      [] OTHER -> DefaultModel

----------------------------------------------------------------------------
(* Camera/transform controller *)

\* an auto-fit that divides by the tangent of the angle
FitScaleTan(model, w, h) ==
    LET effectiveFOV == IF h = 0 THEN fieldOfView
                        ELSE Min(fieldOfView, (fieldOfView * w) \div h)
        modelSize == Max(Length(model.m_AABBMax), Length(model.m_AABBMin))
        optimalViewingDistance ==
            FMul(FDiv(modelSize, qTan(qDegreesToRadians(effectiveFOV))), Headroom)
    IN FDiv(CameraDistance, optimalViewingDistance)

\* resetView(), lines 686-695: the auto-fit factor for a valid model
\* (with height() = 0 the quotient is +inf or NaN and std::min returns fieldOfView)
FitScale(model, w, h) ==
    LET effectiveFOV == IF h = 0 THEN fieldOfView
                        ELSE Min(fieldOfView, (fieldOfView * w) \div h)
        modelSize == Max(Length(model.m_AABBMax), Length(model.m_AABBMin))
        optimalViewingDistance ==
            FMul(FDiv(modelSize, qAtan(qDegreesToRadians(effectiveFOV))), Headroom)
    IN FDiv(CameraDistance, optimalViewingDistance)

\* resetView(): the camera it leaves for a model and a window size
ResetCamera(model, w, h) ==
    [scale |-> IF model.m_isValid THEN FMul(FP, FitScale(model, w, h)) ELSE FP,
     rotX |-> 0,
     rotY |-> DefaultPitch,
     trans |-> Vec(0, 0, -CameraDistance)]

\* Update(sec): the camera after one tick with the keys in `keys` held
UpdateCamera(cam, keys, sec) ==
    LET speed0 == FMul(movementSensitivity, sec)
        speed1 == IF "Shift" \in keys THEN speed0 * 3 ELSE speed0
        effectiveSpeed == IF "Ctrl" \in keys THEN Sgn(speed1) * (Abs(speed1) \div 3) ELSE speed1
        ty1 == IF "W" \in keys THEN cam.trans[2] - effectiveSpeed ELSE cam.trans[2]
        ty2 == IF "S" \in keys THEN ty1 + effectiveSpeed ELSE ty1
        tx1 == IF "A" \in keys THEN cam.trans[1] + effectiveSpeed ELSE cam.trans[1]
        tx2 == IF "D" \in keys THEN tx1 - effectiveSpeed ELSE tx1
        half == Sgn(effectiveSpeed) * (Abs(effectiveSpeed) \div 2)
        sc1 == IF "E" \in keys THEN FMul(cam.scale, FP + half) ELSE cam.scale
        sc2 == IF "Q" \in keys THEN FMul(sc1, FP - half) ELSE sc1
        rotSpeed == qRadiansToDegrees(effectiveSpeed)
        ry1 == IF "Up" \in keys THEN cam.rotY + rotSpeed ELSE cam.rotY
        ry2 == IF "Down" \in keys THEN ry1 - rotSpeed ELSE ry1
        ry3 == ClampPitch(ry2)
        rx1 == IF "Right" \in keys THEN cam.rotX - rotSpeed ELSE cam.rotX
        rx2 == IF "Left" \in keys THEN rx1 + rotSpeed ELSE rx1
    IN [scale |-> sc2, rotX |-> rx2, rotY |-> ry3, trans |-> Vec(tx2, ty2, cam.trans[3])]

\* the camera as one record
Cam == [scale |-> m_scaleMatrix, rotX |-> rotX, rotY |-> rotY, trans |-> m_transMatrix]

\* Update(sec), lines 618-641, in float arithmetic: the speed with the modifiers
\* applied, and the X translation after the strafe keys; e.x is the X translation
\* so far, e.t the time ticked with strafe-right held
EffectiveSpeed32(keys, sec32) ==
    LET speed0 == (movementSensitivity \div FP) * sec32
        speed1 == IF "Shift" \in keys THEN F32(speed0 * 3) ELSE speed0
    IN IF "Ctrl" \in keys THEN F32Div3(speed1) ELSE speed1

\* an Update() whose strafe moves by half the speed
Update32HalfStrafe(e, keys, sec32) ==
    LET effectiveSpeed == EffectiveSpeed32(keys, sec32)
        x1 == IF "A" \in keys THEN F32(e.x + effectiveSpeed \div 2) ELSE e.x
        x2 == IF "D" \in keys THEN F32(x1 - effectiveSpeed \div 2) ELSE x1
    IN [x |-> x2, t |-> IF "D" \in keys THEN e.t + sec32 ELSE e.t,
        speed |-> effectiveSpeed, sec |-> sec32]

\* an Update() in which Shift and Ctrl held together cancel before any arithmetic
Update32Cancelling(e, keys, sec32) ==
    LET both == {"Shift", "Ctrl"} \subseteq keys
        effectiveSpeed == EffectiveSpeed32(IF both THEN keys \ {"Shift", "Ctrl"} ELSE keys, sec32)
        x1 == IF "A" \in keys THEN F32(e.x + effectiveSpeed) ELSE e.x
        x2 == IF "D" \in keys THEN F32(x1 - effectiveSpeed) ELSE x1
    IN [x |-> x2, t |-> IF "D" \in keys THEN e.t + sec32 ELSE e.t,
        speed |-> effectiveSpeed, sec |-> sec32]

Update32(e, keys, sec32) ==
    LET effectiveSpeed == EffectiveSpeed32(keys, sec32)
        x1 == IF "A" \in keys THEN F32(e.x + effectiveSpeed) ELSE e.x
        x2 == IF "D" \in keys THEN F32(x1 - effectiveSpeed) ELSE x1
    IN [x |-> x2, t |-> IF "D" \in keys THEN e.t + sec32 ELSE e.t,
        speed |-> effectiveSpeed, sec |-> sec32]

\* GetModelMatrix() applied to the point p:
\* m_transMatrix * rotate(rotY, xAxis) * rotate(rotX, yAxis) * m_scaleMatrix
ModelPoint(cam, p) ==
    LET sx == FMul(cam.scale, p[1])
        sy == FMul(cam.scale, p[2])
        sz == FMul(cam.scale, p[3])
        yaw == qDegreesToRadians(cam.rotX)
        pitch == qDegreesToRadians(cam.rotY)
        x1 == FMul(sx, qCos(yaw)) + FMul(sz, qSin(yaw))
        z1 == FMul(sz, qCos(yaw)) - FMul(sx, qSin(yaw))
        y2 == FMul(sy, qCos(pitch)) - FMul(z1, qSin(pitch))
        z2 == FMul(sy, qSin(pitch)) + FMul(z1, qCos(pitch))
    IN Vec(x1 + cam.trans[1], y2 + cam.trans[2], z2 + cam.trans[3])

\* the eight corners of the model's bounding box
Corners(model) ==
    {Vec(x, y, z) : x \in {model.m_AABBMin[1], model.m_AABBMax[1]},
                    y \in {model.m_AABBMin[2], model.m_AABBMax[2]},
                    z \in {model.m_AABBMin[3], model.m_AABBMax[3]}}

\* paintGL(), lines 432-438: the point q of the model matrix's image lies inside
\* the frustum of perspective(fieldOfView, width / height, nearPlane, farPlane)
InFrustum(q, w, h) ==
    LET depth == -q[3]
        halfHeight == FMul(depth, qTan(qDegreesToRadians(fieldOfView) \div 2))
    IN /\ nearPlane <= depth
       /\ depth <= farPlane
       /\ Abs(q[2]) <= halfHeight
       /\ Abs(q[1]) * h <= halfHeight * w

\* the values the model follows a step to
InRange(cam) ==
    /\ Abs(cam.trans[1]) <= MaxTrans
    /\ Abs(cam.trans[2]) <= MaxTrans
    /\ Abs(cam.rotX) <= MaxYaw
    /\ Abs(cam.scale) <= MaxScale

SetCamera(cam) ==
    /\ InRange(cam)
    /\ m_scaleMatrix' = cam.scale
    /\ rotX' = cam.rotX
    /\ rotY' = cam.rotY
    /\ m_transMatrix' = cam.trans

NoCall == [op |-> "none", ret |-> FALSE, sig |-> <<>>]

----------------------------------------------------------------------------
(* Input tracker *)

\* keyPressEvent: m_pressedKeys.insert(event->key())
keyPressEvent(k) ==
    /\ ~aborted
    /\ m_pressedKeys' = m_pressedKeys \cup {k}
    /\ cleared' = FALSE
    /\ call' = NoCall
    /\ UNCHANGED <<initialized, m_currentModel, width, height, camera, m_leftMousePressed,
                   m_rightMousePressed, lastX, lastY, shader, files, frames, nInput, aborted, exact>>

\* keyReleaseEvent: m_pressedKeys.remove(event->key())
keyReleaseEvent(k) ==
    /\ ~aborted
    /\ m_pressedKeys' = m_pressedKeys \ {k}
    /\ call' = NoCall
    /\ UNCHANGED <<initialized, m_currentModel, width, height, camera, m_leftMousePressed,
                   m_rightMousePressed, lastX, lastY, shader, files, frames, cleared, nInput, aborted, exact>>

\* a clear that leaves the pressed set as it is
ClearKeyboardKeepsKeys ==
    /\ m_pressedKeys' = m_pressedKeys
    /\ cleared' = TRUE

\* ClearKeyboard(): m_pressedKeys.clear()
ClearKeyboardBody ==
    /\ m_pressedKeys' = {}
    /\ cleared' = TRUE

ClearKeyboard ==
    /\ ~aborted
    /\ ClearKeyboardBody
    /\ call' = NoCall
    /\ UNCHANGED <<initialized, m_currentModel, width, height, camera, m_leftMousePressed,
                   m_rightMousePressed, lastX, lastY, shader, files, frames, nInput, aborted, exact>>

\* focusOutEvent: ClearKeyboard(), then the base class
focusOutEvent ==
    /\ ~aborted
    /\ ClearKeyboardBody
    /\ call' = NoCall
    /\ UNCHANGED <<initialized, m_currentModel, width, height, camera, m_leftMousePressed,
                   m_rightMousePressed, lastX, lastY, shader, files, frames, nInput, aborted, exact>>

\* FocusMenu: QMenu::aboutToShow is connected to ClearKeyboard()
FocusMenuAboutToShow ==
    /\ ~aborted
    /\ ClearKeyboardBody
    /\ call' = NoCall
    /\ UNCHANGED <<initialized, m_currentModel, width, height, camera, m_leftMousePressed,
                   m_rightMousePressed, lastX, lastY, shader, files, frames, nInput, aborted, exact>>

\* mousePressEvent(button at pos)
mousePressEvent(button, pos) ==
    /\ ~aborted
    /\ m_leftMousePressed' = IF button = "Left" THEN TRUE ELSE m_leftMousePressed
    /\ m_rightMousePressed' = IF button = "Right" THEN TRUE ELSE m_rightMousePressed
    /\ lastX' = pos[1]
    /\ lastY' = pos[2]
    /\ call' = NoCall
    /\ UNCHANGED <<initialized, m_currentModel, width, height, camera, m_pressedKeys,
                   shader, files, frames, cleared, nInput, aborted, exact>>

\* mouseReleaseEvent(button)
mouseReleaseEvent(button) ==
    /\ ~aborted
    /\ m_leftMousePressed' = IF button = "Left" THEN FALSE ELSE m_leftMousePressed
    /\ m_rightMousePressed' = IF button = "Right" THEN FALSE ELSE m_rightMousePressed
    /\ call' = NoCall
    /\ UNCHANGED <<initialized, m_currentModel, width, height, camera, m_pressedKeys,
                   lastX, lastY, shader, files, frames, cleared, nInput, aborted, exact>>

\* panAdj = (480.f / height()) * (fieldOfView / 60.f), for height() # 0
PanAdj(h) == FMul(FDiv(RefHeight * FP, h * FP), FDiv(fieldOfView, RefFov))

\* with height() = 0 panAdj is +inf and the translation becomes inf or NaN: a value
\* beyond every range the model follows
NotFollowed == 2 * MaxTrans

\* mouseMoveEvent's drag: the camera after a move to pos with `buttons` held
DragCamera(cam, buttons, pos, lx, ly, left, right, h) ==
    LET deltaX == lx - pos[1]
        deltaY == ly - pos[2]
        rotate == "Left" \in buttons /\ left
        pan == "Right" \in buttons /\ right
        rx == IF rotate THEN cam.rotX + (-deltaX) * xRotateSensitivity ELSE cam.rotX
        ry == IF rotate THEN ClampPitch(cam.rotY + (-deltaY) * yRotateSensitivity)
              ELSE cam.rotY
        tx == IF pan
              THEN IF h = 0 THEN NotFollowed
                   ELSE cam.trans[1] + FMul((-deltaX) * panXSensitivity, PanAdj(h))
              ELSE cam.trans[1]
        ty == IF pan
              THEN IF h = 0 THEN NotFollowed
                   ELSE cam.trans[2] + FMul(deltaY * panYSensitivity, PanAdj(h))
              ELSE cam.trans[2]
    IN [scale |-> cam.scale, rotX |-> rx, rotY |-> ry, trans |-> Vec(tx, ty, cam.trans[3])]

\* a mouseMoveEvent that records the cursor only while one of its drags is active
mouseMoveEventTracksDrags(buttons, pos) ==
    /\ ~aborted
    /\ SetCamera(DragCamera(Cam, buttons, pos, lastX, lastY, m_leftMousePressed,
                            m_rightMousePressed, height))
    /\ LET dragging == \/ ("Left" \in buttons /\ m_leftMousePressed)
                       \/ ("Right" \in buttons /\ m_rightMousePressed)
       IN /\ lastX' = IF dragging THEN pos[1] ELSE lastX
          /\ lastY' = IF dragging THEN pos[2] ELSE lastY
    /\ call' = NoCall
    /\ UNCHANGED <<initialized, m_currentModel, width, height, m_pressedKeys,
                   m_leftMousePressed, m_rightMousePressed, shader, files, frames, cleared, aborted, exact>>
    /\ nInput' = nInput + 1

\* mouseMoveEvent(pos, with the buttons event->buttons() reports)
mouseMoveEvent(buttons, pos) ==
    /\ ~aborted
    /\ SetCamera(DragCamera(Cam, buttons, pos, lastX, lastY, m_leftMousePressed,
                            m_rightMousePressed, height))
    /\ lastX' = pos[1]
    /\ lastY' = pos[2]
    /\ call' = NoCall
    /\ UNCHANGED <<initialized, m_currentModel, width, height, m_pressedKeys,
                   m_leftMousePressed, m_rightMousePressed, shader, files, frames, cleared, aborted, exact>>
    /\ nInput' = nInput + 1

\* a mouse move delivered while fewer than n pointer and resize events have been
PointerMove(buttons, pos, n) ==
    /\ nInput < n
    /\ mouseMoveEvent(buttons, pos)

\* wheelEvent: m_scaleMatrix.scale(1.f + zoomSensitivity * angleDelta().y())
WheelCamera(cam, dy) ==
    [cam EXCEPT !.scale = FMul(cam.scale, FP + zoomSensitivity * dy)]

wheelEvent(dy) ==
    /\ ~aborted
    /\ SetCamera(WheelCamera(Cam, dy))
    /\ call' = NoCall
    /\ UNCHANGED <<initialized, m_currentModel, width, height, input, shader, files,
                   frames, cleared, aborted, exact>>
    /\ nInput < MaxInput
    /\ nInput' = nInput + 1

\* resizeGL(w, h): the widget has been resized
resizeGL(w, h) ==
    /\ ~aborted
    /\ width' = w
    /\ height' = h
    /\ call' = NoCall
    /\ UNCHANGED <<initialized, m_currentModel, camera, input, shader, files, frames, cleared, aborted, exact>>
    /\ nInput < MaxInput
    /\ nInput' = nInput + 1

\* a resetView() that leaves the yaw as it is
resetViewKeepsYaw ==
    /\ ~aborted
    /\ SetCamera([ResetCamera(m_currentModel, width, height) EXCEPT !.rotX = rotX])
    /\ call' = [op |-> "resetView", ret |-> TRUE, sig |-> <<>>]
    /\ UNCHANGED <<initialized, m_currentModel, width, height, input, shader, files,
                   frames, cleared, nInput, aborted, exact>>

\* resetView(), as the View > Reset menu action calls it
resetView ==
    /\ ~aborted
    /\ SetCamera(ResetCamera(m_currentModel, width, height))
    /\ call' = [op |-> "resetView", ret |-> TRUE, sig |-> <<>>]
    /\ UNCHANGED <<initialized, m_currentModel, width, height, input, shader, files,
                   frames, cleared, nInput, aborted, exact>>

----------------------------------------------------------------------------
(* Model loading *)

\* a loadModel that announces the load before it knows the path
loadModelEagerSignal(filepath, dialog) ==
    /\ ~aborted
    /\ LET path == IF filepath = "" THEN dialog ELSE filepath
       IN IF ~initialized
          THEN /\ call' = [op |-> "loadModel", ret |-> FALSE, sig |-> <<>>]
               /\ UNCHANGED <<initialized, m_currentModel, width, height, camera, input,
                              shader, files, frames, cleared, nInput, aborted, exact>>
          ELSE IF path = ""
          THEN /\ call' = [op |-> "loadModel", ret |-> FALSE,
                           sig |-> << <<"BeginModelLoading", path>> >>]
               /\ UNCHANGED <<initialized, m_currentModel, width, height, camera, input,
                              shader, files, frames, cleared, nInput, aborted, exact>>
          ELSE LET m == LoadModel(path)
               IN /\ m_currentModel' = m
                  /\ SetCamera(ResetCamera(m, width, height))
                  /\ call' = [op |-> "loadModel", ret |-> m.m_isValid,
                              sig |-> << <<"BeginModelLoading", path>>,
                                         <<"EndModelLoading", m.m_isValid, path>> >>]
                  /\ UNCHANGED <<initialized, width, height, input, shader, files,
                                 frames, cleared, nInput, aborted, exact>>

\* a loadModel that does not call resetView()
loadModelNoReset(filepath, dialog) ==
    /\ ~aborted
    /\ LET path == IF filepath = "" THEN dialog ELSE filepath
       IN IF ~initialized \/ path = ""
          THEN /\ call' = [op |-> "loadModel", ret |-> FALSE, sig |-> <<>>]
               /\ UNCHANGED <<initialized, m_currentModel, width, height, camera, input,
                              shader, files, frames, cleared, nInput, aborted, exact>>
          ELSE LET m == LoadModel(path)
               IN /\ m_currentModel' = m
                  /\ call' = [op |-> "loadModel", ret |-> m.m_isValid,
                              sig |-> << <<"BeginModelLoading", path>>,
                                         <<"EndModelLoading", m.m_isValid, path>> >>]
                  /\ UNCHANGED <<initialized, width, height, camera, input, shader, files,
                                 frames, cleared, nInput, aborted, exact>>

\* a loadModel that announces the end of the load before it replaces the model
loadModelEndBeforeReplace(filepath, dialog) ==
    /\ ~aborted
    /\ LET path == IF filepath = "" THEN dialog ELSE filepath
       IN IF ~initialized \/ path = ""
          THEN /\ call' = [op |-> "loadModel", ret |-> FALSE, sig |-> <<>>]
               /\ UNCHANGED <<initialized, m_currentModel, width, height, camera, input,
                              shader, files, frames, cleared, nInput, aborted, exact>>
          ELSE LET m == LoadModel(path)
               IN /\ m_currentModel' = m
                  /\ SetCamera(ResetCamera(m, width, height))
                  /\ call' = [op |-> "loadModel", ret |-> m.m_isValid,
                              sig |-> << <<"BeginModelLoading", path>>,
                                         <<"EndModelLoading", m_currentModel.m_isValid, path>> >>]
                  /\ UNCHANGED <<initialized, width, height, input, shader, files,
                                 frames, cleared, nInput, aborted, exact>>

\* a loadModel that does not ask whether initializeGL() has run
loadModelUnguarded(filepath, dialog) ==
    /\ ~aborted
    /\ LET path == IF filepath = "" THEN dialog ELSE filepath
       IN IF path = ""
          THEN /\ call' = [op |-> "loadModel", ret |-> FALSE, sig |-> <<>>]
               /\ UNCHANGED <<initialized, m_currentModel, width, height, camera, input,
                              shader, files, frames, cleared, nInput, aborted, exact>>
          ELSE LET m == LoadModel(path)
               IN /\ m_currentModel' = m
                  /\ SetCamera(ResetCamera(m, width, height))
                  /\ call' = [op |-> "loadModel", ret |-> m.m_isValid,
                              sig |-> << <<"BeginModelLoading", path>>,
                                         <<"EndModelLoading", m.m_isValid, path>> >>]
                  /\ UNCHANGED <<initialized, width, height, input, shader, files,
                                 frames, cleared, nInput, aborted, exact>>

\* loadModel(filepath); dialog is what QFileDialog::getOpenFileName returns if asked
loadModel(filepath, dialog) ==
    /\ ~aborted
    /\ LET path == IF filepath = "" THEN dialog ELSE filepath
       IN IF ~initialized \/ path = ""
          THEN /\ call' = [op |-> "loadModel", ret |-> FALSE, sig |-> <<>>]
               /\ UNCHANGED <<initialized, m_currentModel, width, height, camera, input,
                              shader, files, frames, cleared, nInput, aborted, exact>>
          ELSE LET m == LoadModel(path)
               IN /\ m_currentModel' = m
                  /\ SetCamera(ResetCamera(m, width, height))
                  /\ call' = [op |-> "loadModel", ret |-> m.m_isValid,
                              sig |-> << <<"BeginModelLoading", path>>,
                                         <<"EndModelLoading", m.m_isValid, path>> >>]
                  /\ UNCHANGED <<initialized, width, height, input, shader, files,
                                 frames, cleared, nInput, aborted, exact>>

\* unloadModel()
unloadModel ==
    /\ ~aborted
    /\ m_currentModel' = DefaultModel
    /\ call' = [op |-> "unloadModel", ret |-> TRUE, sig |-> << <<"ModelUnloaded">> >>]
    /\ UNCHANGED <<initialized, width, height, camera, input, shader, files, frames, cleared, nInput, aborted, exact>>

----------------------------------------------------------------------------
(* Frame timer and render tick *)

RECURSIVE PruneFromInclusive(_, _, _, _)
\* a pruning loop that goes on while total <= 0.25f
PruneFromInclusive(w, i, total, kept) ==
    IF i = 0 THEN kept
    ELSE IF total <= FrameWindow
         THEN PruneFromInclusive(w, i - 1, total + w[i], <<w[i]>> \o kept)
         ELSE kept

RECURSIVE PruneFromWithin(_, _, _, _)
\* a pruning loop that keeps an entry only if the total with it stays below 0.25f
PruneFromWithin(w, i, total, kept) ==
    IF i = 0 THEN kept
    ELSE IF total + w[i] < FrameWindow
         THEN PruneFromWithin(w, i - 1, total + w[i], <<w[i]>> \o kept)
         ELSE kept

RECURSIVE PruneFrom(_, _, _, _)
\* RenderText(), lines 581-591: walk from the newest entry while total < 0.25f
PruneFrom(w, i, total, kept) ==
    IF i = 0 THEN kept
    ELSE IF total < FrameWindow
         THEN PruneFrom(w, i - 1, total + w[i], <<w[i]>> \o kept)
         ELSE kept

\* the frame window RenderText() leaves
Prune(w) == PruneFrom(w, Len(w), 0, <<>>)

\* int(round(inf)) of a zero total is undefined
UndefinedInt == {-2147483647, 0, 2147483647}

\* RenderText(), lines 574-578: the fps drawn for window w
FpsOf(w) ==
    IF SumSeq(w) # 0 THEN {RoundDiv(Len(w), SumSeq(w))} ELSE UndefinedInt

\* a RenderText() that prunes before it computes the fps
RenderTextPruneFirst(w) ==
    /\ fps' \in FpsOf(Prune(w))
    /\ m_frametimes' = Prune(w)

\* RenderText(): fps of the window as it stands, then the pruning
RenderText(w) ==
    /\ fps' \in FpsOf(w)
    /\ m_frametimes' = Prune(w)

\* a paintGL() that integrates over the mean of the frame window
paintGLWindowMean(nsec) ==
    /\ ~aborted
    /\ initialized
    /\ m_updateTimer' = TRUE
    /\ seconds' = nsec
    /\ SetCamera(UpdateCamera(Cam, m_pressedKeys,
                              SumSeq(Append(m_frametimes, nsec)) \div (Len(m_frametimes) + 1)))
    /\ RenderText(Append(m_frametimes, nsec))
    /\ m_frame' = m_frame + 1
    /\ call' = NoCall
    /\ UNCHANGED <<initialized, m_currentModel, width, height, input, shader, files,
                   cleared, nInput, aborted>>

\* paintGL(), with nsec the timer's reading
paintGL(nsec) ==
    /\ ~aborted
    /\ initialized
    /\ m_updateTimer' = TRUE
    /\ seconds' = nsec
    /\ SetCamera(UpdateCamera(Cam, m_pressedKeys, nsec))
    /\ RenderText(Append(m_frametimes, nsec))
    /\ m_frame' = m_frame + 1
    /\ call' = NoCall
    /\ UNCHANGED <<initialized, m_currentModel, width, height, input, shader, files,
                   cleared, nInput, aborted>>

\* a render tick with whatever the timer reads, in milliseconds
Tick(ds) ==
    /\ m_frame < MaxFrames
    /\ Len(m_frametimes) <= MaxLen
    /\ \E nsec \in (IF m_updateTimer THEN ds ELSE ds \cup UndefinedDeltas) : paintGL(nsec)
    /\ UNCHANGED exact

\* a render tick whose duration is given as the float that paintGL() passes to
\* Update(), with Update()'s float arithmetic followed bit for bit; n ticks at most
Tick32(ds, n) ==
    /\ m_frame < n
    /\ Len(m_frametimes) <= MaxLen
    /\ \E sec32 \in ds :
          /\ paintGL(Ms(sec32))
          /\ exact' = Update32(exact, m_pressedKeys, sec32)

----------------------------------------------------------------------------
(* Shader manager *)

\* shader files; the first two are the defaults of initializeGL()
VertPaths == {"ads.vert", "user.vert"}
FragPaths == {"ads.frag", "user.frag"}
ShaderPaths == VertPaths \cup FragPaths

\* What a shader file can hold:
\*   "ads"    compiles; the interface and all the names of the shipped shaders
\*   "flat"   compiles; another interface between the stages (links with "flat" only),
\*            and only posAttr, colAttr and matrix
\*   "bare"   compiles; links with "bare" only, and declares none of the names
\*   "broken" does not compile
Sources == {"ads", "flat", "bare", "broken"}

Compiles(src) == src # "broken"

\* names looked up after a link, in lookup order
LocationNames == <<"posAttr", "colAttr", "matrix", "normAttr", "uvAttr", "modelview",
                   "normalMat", "uLightPos", "uKa", "uKd", "uKs", "uSpecularColor",
                   "uShininess">>

Declares(src) ==
    CASE src = "ads" -> {LocationNames[i] : i \in 1..Len(LocationNames)}
      [] src = "flat" -> {"posAttr", "colAttr", "matrix"}
      [] OTHER -> {}

\* new QOpenGLShaderProgram / removeAllShaders(): no stage attached, not linked
EmptyProgram == [vert |-> "none", frag |-> "none", linked |-> FALSE]

\* addShaderFromSourceFile(stage, path): attaches the compiled source, or fails
CanAdd(fs, path) == Compiles(fs[path])
AddVertex(prog, fs, path) ==
    IF CanAdd(fs, path) THEN [prog EXCEPT !.vert = fs[path], !.linked = FALSE] ELSE prog
AddFragment(prog, fs, path) ==
    IF CanAdd(fs, path) THEN [prog EXCEPT !.frag = fs[path], !.linked = FALSE] ELSE prog

\* link(): succeeds when the two stages agree; with a stage missing the outcome
\* depends on the OpenGL profile (`partial` is what this platform answers)
Link(prog, partial) ==
    [prog EXCEPT !.linked =
        IF prog.vert = "none" \/ prog.frag = "none" THEN partial
        ELSE prog.vert = prog.frag]

\* attributeLocation(name) / uniformLocation(name): -1 unless linked and declared
Location(prog, i) ==
    IF prog.linked /\ LocationNames[i] \in (Declares(prog.vert) \cup Declares(prog.frag))
    THEN i - 1 ELSE -1

\* the table of handles read after a successful link (lines 127-145, 186-204)
Locations(prog) == [i \in 1..Len(LocationNames) |-> Location(prog, i)]

\* the three handles under Q_ASSERT(... != -1), lines 127-132 and 186-191
Asserted == 1..3

\* a Q_ASSERT fails for this linked program
AssertFails(prog) == \E i \in Asserted : Location(prog, i) = -1

\* the table when the first failing Q_ASSERT stops the program: the handles read
\* up to it are stored, the others are as they were
LocationsAtAssert(old, prog) ==
    LET first == CHOOSE i \in Asserted :
                    /\ Location(prog, i) = -1
                    /\ \A j \in Asserted : j < i => Location(prog, j) # -1
    IN [i \in 1..Len(LocationNames) |-> IF i <= first THEN Location(prog, i) ELSE old[i]]

\* what a linked program leaves: the handles, and the end of the process if a
\* Q_ASSERT fails in a build that checks them (qtDebug)
AfterLink(st, prog, vfile, ffile, qtDebug) ==
    IF AssertFails(prog) /\ qtDebug
    THEN [st |-> [prog |-> prog, vfile |-> vfile, ffile |-> ffile,
                  loc |-> LocationsAtAssert(st.loc, prog)],
          ret |-> FALSE, sig |-> <<>>, aborted |-> TRUE]
    ELSE [st |-> [prog |-> prog, vfile |-> vfile, ffile |-> ffile, loc |-> Locations(prog)],
          ret |-> TRUE, sig |-> << <<"ClearError">> >>, aborted |-> FALSE]

\* the shader state as one record
ShaderState ==
    [prog |-> m_program, vfile |-> currentVertFile, ffile |-> currentFragFile,
     loc |-> locations]

\* loadVertexShader from line 110 on: [st, ret, sig, aborted]
LoadVertex(st, fs, vertfilepath, partial, qtDebug) ==
    LET ok == CanAdd(fs, vertfilepath)
        p1 == IF ok THEN AddVertex(EmptyProgram, fs, vertfilepath)
              ELSE AddVertex(EmptyProgram, fs, st.vfile)
        path == IF ok THEN vertfilepath ELSE st.vfile
        p2 == Link(AddFragment(p1, fs, st.ffile), partial)
    IN IF ~p2.linked
       THEN [st |-> [st EXCEPT !.prog = p2, !.vfile = path],
             ret |-> FALSE,
             sig |-> << <<"Error">> >>,
             aborted |-> FALSE]
       ELSE AfterLink(st, p2, path, st.ffile, qtDebug)

\* loadFragmentShader from line 165 on: [st, ret, sig, aborted]
LoadFragment(st, fs, fragfilepath, partial, qtDebug) ==
    LET p1 == AddVertex(EmptyProgram, fs, st.vfile)
        ok == CanAdd(fs, fragfilepath)
        p2 == IF ok THEN AddFragment(p1, fs, fragfilepath)
              ELSE AddFragment(p1, fs, st.ffile)
        path == IF ok THEN fragfilepath ELSE st.ffile
        p3 == Link(p2, partial)
    IN IF ~p3.linked
       THEN [st |-> [st EXCEPT !.prog = p3, !.ffile = path],
             ret |-> FALSE,
             sig |-> << <<"Error">> >>,
             aborted |-> FALSE]
       ELSE AfterLink(st, p3, st.vfile, path, qtDebug)

\* the end of a shader call: the state it leaves and what it reported
SetShader(st) ==
    /\ m_program' = st.prog
    /\ currentVertFile' = st.vfile
    /\ currentFragFile' = st.ffile
    /\ locations' = st.loc

\* loadVertexShader(vertfilepath); dialog is what the file dialog returns if asked
loadVertexShader(vertfilepath, dialog, partial) ==
    /\ ~aborted
    /\ LET path == IF vertfilepath = "" THEN dialog ELSE vertfilepath
       IN IF ~initialized \/ path = ""
          THEN /\ call' = [op |-> "loadVertexShader", ret |-> FALSE, sig |-> <<>>]
               /\ UNCHANGED <<shader, aborted>>
          ELSE \E qtDebug \in BOOLEAN :
                 LET r == LoadVertex(ShaderState, files, path, partial, qtDebug)
                 IN /\ SetShader(r.st)
                    /\ aborted' = r.aborted
                    /\ call' = [op |-> "loadVertexShader", ret |-> r.ret, sig |-> r.sig]
    /\ UNCHANGED <<initialized, m_currentModel, width, height, camera, input, files,
                   frames, cleared, nInput, exact>>

\* loadFragmentShader(fragfilepath); dialog is what the file dialog returns if asked
loadFragmentShader(fragfilepath, dialog, partial) ==
    /\ ~aborted
    /\ LET path == IF fragfilepath = "" THEN dialog ELSE fragfilepath
       IN IF ~initialized \/ path = ""
          THEN /\ call' = [op |-> "loadFragmentShader", ret |-> FALSE, sig |-> <<>>]
               /\ UNCHANGED <<shader, aborted>>
          ELSE \E qtDebug \in BOOLEAN :
                 LET r == LoadFragment(ShaderState, files, path, partial, qtDebug)
                 IN /\ SetShader(r.st)
                    /\ aborted' = r.aborted
                    /\ call' = [op |-> "loadFragmentShader", ret |-> r.ret, sig |-> r.sig]
    /\ UNCHANGED <<initialized, m_currentModel, width, height, camera, input, files,
                   frames, cleared, nInput, exact>>

\* reloadCurrentShaders() with both calls made whatever the first one returns
ReloadBoth(st, fs, partial, qtDebug) ==
    LET r1 == LoadVertex(st, fs, st.vfile, partial, qtDebug)
        r2 == LoadFragment(r1.st, fs, r1.st.ffile, partial, qtDebug)
    IN IF r1.aborted THEN r1
       ELSE [st |-> r2.st, ret |-> r1.ret /\ r2.ret, sig |-> r1.sig \o r2.sig,
             aborted |-> r2.aborted]

\* reloadCurrentShaders(), lines 234-235:
\* loadVertexShader(currentVertFile) && loadFragmentShader(currentFragFile)
Reload(st, fs, partial, qtDebug) ==
    LET r1 == LoadVertex(st, fs, st.vfile, partial, qtDebug)
        r2 == LoadFragment(r1.st, fs, r1.st.ffile, partial, qtDebug)
    IN IF r1.aborted \/ ~r1.ret THEN r1
       ELSE [st |-> r2.st, ret |-> r2.ret, sig |-> r1.sig \o r2.sig, aborted |-> r2.aborted]

\* reloadCurrentShaders(), as the Reload Current Shaders menu action calls it
\* (before initializeGL() both calls return at line 99 and line 153)
reloadCurrentShaders(partial) ==
    /\ ~aborted
    /\ IF ~initialized
       THEN /\ call' = [op |-> "reloadCurrentShaders", ret |-> FALSE, sig |-> <<>>]
            /\ UNCHANGED <<shader, aborted>>
       ELSE \E qtDebug \in BOOLEAN :
              LET r == Reload(ShaderState, files, partial, qtDebug)
              IN /\ SetShader(r.st)
                 /\ aborted' = r.aborted
                 /\ call' = [op |-> "reloadCurrentShaders", ret |-> r.ret, sig |-> r.sig]
    /\ UNCHANGED <<initialized, m_currentModel, width, height, camera, input, files,
                   frames, cleared, nInput, exact>>

\* initializeGL(): link the default shaders, read the handles, reset the view
initializeGL ==
    /\ ~aborted
    /\ ~initialized
    /\ LET p == Link(AddFragment(AddVertex(EmptyProgram, files, "ads.vert"),
                                 files, "ads.frag"), FALSE)
       IN SetShader([prog |-> p, vfile |-> "ads.vert", ffile |-> "ads.frag",
                     loc |-> Locations(p)])
    /\ SetCamera(ResetCamera(m_currentModel, width, height))
    /\ initialized' = TRUE
    /\ call' = NoCall
    /\ UNCHANGED <<m_currentModel, width, height, input, files, frames, cleared, nInput, aborted, exact>>

\* a shader file is edited or replaced outside the program (the shipped defaults
\* are intact when the program starts)
ExternalEdit(path, src) ==
    /\ ~aborted
    /\ initialized
    /\ files' = [files EXCEPT ![path] = src]
    /\ call' = NoCall
    /\ UNCHANGED <<initialized, m_currentModel, width, height, camera, input, shader,
                   frames, cleared, nInput, aborted, exact>>

----------------------------------------------------------------------------
(* Initial state: the constructor has run (resetView(), loadSettings()) *)

\* the handles before initializeGL(): m_posAttr = 0, m_colAttr = 0, m_matrixUniform = 0,
\* m_normAttr = -1, m_uvAttr = -1 (ViewerGraphicsWindow.h); the others are not read
NoLocations == [i \in 1..Len(LocationNames) |-> IF i <= 3 THEN 0 ELSE -1]

Init ==
    /\ initialized = FALSE
    /\ m_currentModel = DefaultModel
    /\ width = 640          \* ModelViewer::ModelViewer: resize(640, 480)
    /\ height = 480
    /\ m_scaleMatrix = FP
    /\ rotX = 0
    /\ rotY = DefaultPitch
    /\ m_transMatrix = Vec(0, 0, -CameraDistance)
    /\ m_pressedKeys = {}
    /\ m_leftMousePressed = FALSE
    /\ m_rightMousePressed = FALSE
    /\ lastX = 0            \* not set by the constructor, and not used before a
    /\ lastY = 0            \* mousePressEvent or mouseMoveEvent has set them
    /\ m_program = EmptyProgram
    /\ currentVertFile = ""
    /\ currentFragFile = ""
    /\ locations = NoLocations
    /\ files = [p \in ShaderPaths |-> "ads"]
    /\ m_updateTimer = FALSE
    /\ m_frametimes = <<>>
    /\ fps = 0
    /\ seconds = 0
    /\ m_frame = 0
    /\ call = NoCall
    /\ cleared = FALSE
    /\ nInput = 0
    /\ aborted = FALSE
    /\ exact = [x |-> 0, t |-> 0, speed |-> 0, sec |-> 0]

----------------------------------------------------------------------------
(* Specifications *)

\* The camera under every operation that writes it: ticks with pitch keys held,
\* drags with either button, the wheel, resetView and loadModel
PitchKeys == {"Up", "Down"}
PitchDeltas == {250}

NextPitch ==
    \/ initializeGL
    \/ Tick(PitchDeltas)
    \/ \E k \in PitchKeys : keyPressEvent(k)
    \/ \E k \in PitchKeys : keyReleaseEvent(k)
    \/ \E b \in Buttons, pos \in Positions : mousePressEvent(b, pos)
    \/ \E b \in Buttons : mouseReleaseEvent(b)
    \/ \E bs \in SUBSET Buttons, pos \in Positions : PointerMove(bs, pos, MaxInput)
    \/ \E dy \in WheelDeltas : wheelEvent(dy)
    \/ resetView
    \/ loadModel("cube.obj", "")

SpecPitch == Init /\ [][NextPitch]_vars

\* The keyboard: every way of clearing it, and ticks with keys of every kind held
HeldKeys == {"D", "Q", "Up", "Right"}
KeyDeltas == {16, 250}

NextKeys ==
    \/ initializeGL
    \/ Tick(KeyDeltas)
    \/ \E k \in HeldKeys : keyPressEvent(k)
    \/ \E k \in HeldKeys : keyReleaseEvent(k)
    \/ ClearKeyboard
    \/ focusOutEvent
    \/ FocusMenuAboutToShow

SpecKeys == Init /\ [][NextKeys]_vars

\* The frame window: ticks of every duration, with or without a key held
FrameKeys == {"D"}

NextFrame ==
    \/ initializeGL
    \/ Tick(Deltas)
    \/ \E k \in FrameKeys : keyPressEvent(k)
    \/ \E k \in FrameKeys : keyReleaseEvent(k)

SpecFrame == Init /\ [][NextFrame]_vars

\* Loading: models and shaders by path or by dialog, unloading, and what changes
\* the view in between
NextLoad ==
    \/ initializeGL
    \/ \E path \in ModelPaths \cup {""}, dialog \in {"", "slab.obj"} : loadModel(path, dialog)
    \/ unloadModel
    \/ resetView
    \/ \E dy \in WheelDeltas : wheelEvent(dy)
    \/ \E sz \in Sizes : resizeGL(sz[1], sz[2])
    \/ \E dialog \in {"", "user.vert"}, partial \in BOOLEAN :
          loadVertexShader("", dialog, partial)
    \/ \E dialog \in {"", "user.frag"}, partial \in BOOLEAN :
          loadFragmentShader("", dialog, partial)

SpecLoad == Init /\ [][NextLoad]_vars

\* The shader manager: loads of either stage while the files change on disk,
\* and the render tick that binds the program
ShaderDeltas == {16}
\* the files edited while the program runs
EditPaths == {"user.vert", "user.frag"}

NextShader ==
    \/ initializeGL
    \/ \E path \in VertPaths, partial \in BOOLEAN : loadVertexShader(path, "", partial)
    \/ \E path \in FragPaths, partial \in BOOLEAN : loadFragmentShader(path, "", partial)
    \/ \E partial \in BOOLEAN : reloadCurrentShaders(partial)
    \/ \E path \in EditPaths, src \in Sources : ExternalEdit(path, src)
    \/ Tick(ShaderDeltas)

SpecShader == Init /\ [][NextShader]_vars

\* Focus: keys and mouse buttons held while the viewport loses the focus
FocusKeys == {"D"}
FocusDeltas == {16}

NextFocus ==
    \/ initializeGL
    \/ Tick(FocusDeltas)
    \/ \E k \in FocusKeys : keyPressEvent(k)
    \/ \E k \in FocusKeys : keyReleaseEvent(k)
    \/ \E b \in Buttons, pos \in Positions : mousePressEvent(b, pos)
    \/ \E b \in Buttons : mouseReleaseEvent(b)
    \/ \E bs \in SUBSET Buttons, pos \in Positions : PointerMove(bs, pos, MaxInput)
    \/ focusOutEvent

SpecFocus == Init /\ [][NextFocus]_vars

\* One second of strafing: float durations of 1/8 s, 1/8 s + 2^-26 s and
\* 1/4 s - 2^-25 s, in units of 2^-26 s
StrafeKeys == {"D"}
StrafeDeltas == {8388608, 8388609, 16777214}

NextStrafe ==
    \/ initializeGL
    \/ Tick32(StrafeDeltas, MaxFrames32)
    \/ \E k \in StrafeKeys : keyPressEvent(k)
    \/ \E k \in StrafeKeys : keyReleaseEvent(k)

SpecStrafe == Init /\ [][NextStrafe]_vars

\* The speed modifiers: float durations of 1/8 s and of the float next to 1/6 s,
\* in units of 2^-26 s
SpeedKeys == {"D", "Shift", "Ctrl"}
SpeedDeltas == {8388608, 11184814}

NextSpeed ==
    \/ initializeGL
    \/ Tick32(SpeedDeltas, MaxFrames)
    \/ \E k \in SpeedKeys : keyPressEvent(k)
    \/ \E k \in SpeedKeys : keyReleaseEvent(k)

SpecSpeed == Init /\ [][NextSpeed]_vars

\* Resetting the view after the camera has been moved by keys, drags and the wheel
ResetKeys == {"D", "Right"}
ResetDeltas == {250}

NextReset ==
    \/ initializeGL
    \/ Tick(ResetDeltas)
    \/ \E k \in ResetKeys : keyPressEvent(k)
    \/ \E b \in Buttons : mousePressEvent(b, <<0, 0>>)
    \/ \E bs \in SUBSET Buttons : PointerMove(bs, <<100, 150>>, MaxInput)
    \/ \E dy \in WheelDeltas : wheelEvent(dy)
    \/ \E sz \in Sizes : resizeGL(sz[1], sz[2])
    \/ loadModel("slab.obj", "")
    \/ unloadModel
    \/ resetView

SpecReset == Init /\ [][NextReset]_vars

\* Zooming: ticks with the scale keys and the speed-up key held, frames short and
\* long, and wheel events of one notch and of several notches at once
ZoomKeys == {"Q", "E", "Shift"}
ZoomDeltas == {16, 500}
ZoomWheelDeltas == {-1200, -120, 120}

NextZoom ==
    \/ initializeGL
    \/ Tick(ZoomDeltas)
    \/ \E k \in ZoomKeys : keyPressEvent(k)
    \/ \E k \in ZoomKeys : keyReleaseEvent(k)
    \/ \E dy \in ZoomWheelDeltas : wheelEvent(dy)

SpecZoom == Init /\ [][NextZoom]_vars

\* The pointer alone: presses, releases and moves with any buttons reported
NextPointer ==
    \/ \E b \in Buttons, pos \in Positions : mousePressEvent(b, pos)
    \/ \E b \in Buttons : mouseReleaseEvent(b)
    \/ \E bs \in SUBSET Buttons, pos \in Positions : PointerMove(bs, pos, MaxMoves)

SpecPointer == Init /\ [][NextPointer]_vars

----------------------------------------------------------------------------
(* Properties *)

\* C1: in every reachable state the pitch rotY lies in [-90, 90] degrees.
C1_PitchInRange == -90 * FP <= rotY /\ rotY <= 90 * FP

\* a tick and a drag have both run, and the pitch sits on the lower limit
C1_Witness == rotY = -90 * FP /\ m_frame > 0 /\ nInput > 0

\* C2: once the start-up link has succeeded, every loadVertexShader or
\* loadFragmentShader call ends with the main program linked, so no render tick
\* binds an unlinked program.
C2_AlwaysLinked == initialized => m_program.linked

\* the last-known-good pair is on disk as it was linked
PairIntact ==
    /\ m_program.linked
    /\ Compiles(files[currentVertFile])
    /\ Compiles(files[currentFragFile])
    /\ files[currentVertFile] = files[currentFragFile]

\* C3: loadFragmentShader with a source that does not compile, the last-known-good
\* pair being intact, ends linked, with currentFragFile as before, having emitted
\* Error exactly once and returned false.
C3_CompileFailureReported ==
    [][\A path \in FragPaths, partial \in BOOLEAN :
          (/\ initialized
           /\ PairIntact
           /\ ~Compiles(files[path])
           /\ loadFragmentShader(path, "", partial))
          => (/\ m_program'.linked
              /\ currentFragFile' = currentFragFile
              /\ call'.sig = << <<"Error">> >>
              /\ call'.ret = FALSE)]_vars

\* C4: after any loadVertexShader or loadFragmentShader call that returns false,
\* the program is linked and the location table is what it was before the call.
C4_FailedLoadRollsBack ==
    [][(/\ initialized
        /\ call'.op \in {"loadVertexShader", "loadFragmentShader"}
        /\ call'.ret = FALSE)
       => (m_program'.linked /\ locations' = locations)]_vars

\* C5: after the first successful link a path is stored into currentVertFile or
\* currentFragFile only by a call whose link succeeded with that path.
C5_OnlyLinkedPathsPersist ==
    [][(/\ initialized
        /\ (currentVertFile' # currentVertFile \/ currentFragFile' # currentFragFile))
       => (call'.ret = TRUE /\ m_program'.linked)]_vars

\* C6: from ClearKeyboard() (called directly, by focusOutEvent or by a menu's
\* aboutToShow) until the next keyPressEvent, a render tick of any duration leaves
\* scale, yaw, pitch and translation unchanged.
C6_NoMotionAfterClear ==
    [][(cleared /\ m_frame' = m_frame + 1) => UNCHANGED camera]_vars

\* D was held for a 250 ms tick and moved the view by 1.0; after the clear a
\* 16 ms tick has run and the view is where it was
C6_Witness ==
    /\ cleared
    /\ m_frame = 2
    /\ m_frametimes = <<250, 16>>
    /\ m_transMatrix[1] = -1000

\* C7 as stated: after every render tick the durations in m_frametimes sum to at
\* most 0.25 seconds.
C7_WindowAtMostQuarterSecond == SumSeq(m_frametimes) <= FrameWindow

\* C7 as amended: after every render tick the durations in m_frametimes other than
\* the oldest one sum to less than 0.25 seconds.
C7_NewerThanOldestBelowWindow ==
    m_frametimes # <<>> => SumSeq(Tail(m_frametimes)) < FrameWindow

\* the window holds several frames and more than 0.25 seconds
C7_Witness == Len(m_frametimes) >= 2 /\ SumSeq(m_frametimes) > FrameWindow

\* C8 as stated: the fps drawn in a tick is round(count / sum) over the window as
\* it is after the tick's eviction.
C8_FpsOverPrunedWindow ==
    (m_frame > 0 /\ SumSeq(m_frametimes) # 0)
    => fps = RoundDiv(Len(m_frametimes), SumSeq(m_frametimes))

\* C8 as amended: the fps drawn in a tick is round(count / sum) over the window
\* as it is after the tick's duration has been appended and before the eviction.
C8_FpsOverUnprunedWindow ==
    [][m_frame' = m_frame + 1
       => LET w == Append(m_frametimes, seconds')
          IN SumSeq(w) # 0 => fps' = RoundDiv(Len(w), SumSeq(w))]_vars

\* a tick has evicted the older frame: fps 6 was drawn for <<16, 300>> and the
\* window left is <<300>>
C8_Witness == m_frame = 2 /\ m_frametimes = <<300>> /\ fps = 6

\* C9: a loadModel, loadVertexShader or loadFragmentShader call with an empty path
\* whose dialog is cancelled returns false, emits no signal and leaves the model,
\* the transform, the program, the shader paths and the location table unchanged.
C9_CancelledLoadIsNoOp ==
    [][(/\ initialized
        /\ \/ loadModel("", "")
           \/ \E partial \in BOOLEAN : loadVertexShader("", "", partial)
           \/ \E partial \in BOOLEAN : loadFragmentShader("", "", partial))
       => (/\ call'.ret = FALSE
           /\ call'.sig = <<>>
           /\ UNCHANGED <<m_currentModel, camera, shader>>)]_vars

\* a model is loaded and zoomed, and a cancelled loadModel has returned
C9_Witness ==
    /\ initialized
    /\ call = [op |-> "loadModel", ret |-> FALSE, sig |-> <<>>]
    /\ m_currentModel.m_isValid
    /\ m_scaleMatrix # FitScale(m_currentModel, width, height)

\* a model load that ran to its end, or an unload
Completed(c) == (c.op = "loadModel" /\ c.sig # <<>>) \/ c.op = "unloadModel"

\* C10 as stated: right after every completed model load and every unloadModel the
\* transform is the one resetView gives for the now-current model.
C10_ResetOnLoadAndUnload ==
    Completed(call) => Cam = ResetCamera(m_currentModel, width, height)

\* C10 as amended: right after every completed model load the transform is the one
\* resetView gives for the now-current model; unloadModel leaves the transform as
\* it was.
C10_ResetOnLoadOnly ==
    [][/\ (call'.op = "loadModel" /\ call'.sig # <<>>)
          => Cam' = ResetCamera(m_currentModel', width', height')
       /\ call'.op = "unloadModel" => UNCHANGED camera]_vars

\* the model has been unloaded and its auto-fit scale is still in place
C10_Witness ==
    /\ call.op = "unloadModel"
    /\ ~m_currentModel.m_isValid
    /\ m_scaleMatrix = FitScale(LoadModel("cube.obj"), width, height)

\* C11 as stated: every reloadCurrentShaders call runs both stages (each stage that
\* runs emits exactly one signal, Error or ClearError) and returns true if and only
\* if both returned true.
C11_ReloadRunsBothStages ==
    [][(initialized /\ call'.op = "reloadCurrentShaders" /\ ~aborted')
       => (/\ Len(call'.sig) = 2
           /\ call'.ret <=> (call'.sig = << <<"ClearError">>, <<"ClearError">> >>))]_vars

\* C11 as amended: reloadCurrentShaders runs loadVertexShader on currentVertFile, and
\* runs loadFragmentShader on currentFragFile only if the vertex call returned true;
\* it returns true if and only if both ran and both returned true.
C11_ReloadStopsAtFailedVertex ==
    [][(initialized /\ call'.op = "reloadCurrentShaders" /\ ~aborted')
       => (/\ Len(call'.sig) \in {1, 2}
           /\ Len(call'.sig) = 2 <=> call'.sig[1] = <<"ClearError">>
           /\ call'.ret <=> (call'.sig = << <<"ClearError">>, <<"ClearError">> >>))]_vars

\* a reload whose vertex stage failed: one Error, no fragment stage, false returned
C11_Witness ==
    /\ initialized
    /\ call = [op |-> "reloadCurrentShaders", ret |-> FALSE, sig |-> << <<"Error">> >>]

\* C12: focusOutEvent leaves the pressed-key set empty and both mouse-button flags
\* false.
C12_FocusLossClearsInput ==
    [][focusOutEvent
       => (m_pressedKeys' = {} /\ ~m_leftMousePressed' /\ ~m_rightMousePressed')]_vars

\* C14: a resetView() on a valid model while height() is zero (called directly or
\* at the end of loadModel) leaves the scale as it was before the call.
C14_ZeroHeightKeepsScale ==
    [][(/\ height = 0
        /\ m_currentModel'.m_isValid
        /\ (resetView \/ (call'.op = "loadModel" /\ call'.sig # <<>>)))
       => m_scaleMatrix' = m_scaleMatrix]_vars

\* C15: no loadVertexShader, loadFragmentShader or reloadCurrentShaders call ends
\* the process in a failed assertion, and a call that reports success leaves the
\* three handles the renderer needs.
C15_NoShaderLoadIsFatal ==
    /\ ~aborted
    /\ (call.op \in {"loadVertexShader", "loadFragmentShader", "reloadCurrentShaders"}
        /\ call.ret)
       => \A i \in Asserted : locations[i] # -1

\* C16: the first render tick, m_updateTimer never having been started, passes 0 to
\* Update() and appends 0 to m_frametimes, and moves nothing.
C16_FirstTickDeltaZero ==
    [][(~m_updateTimer /\ m_frame' = m_frame + 1)
       => (seconds' = 0 /\ m_frametimes' = <<0>> /\ UNCHANGED camera)]_vars

\* scale, yaw, pitch and the Y and Z translation are as resetView() left them
OnlyXMoved ==
    /\ m_scaleMatrix = FP
    /\ rotX = 0
    /\ rotY = DefaultPitch
    /\ m_transMatrix[2] = 0
    /\ m_transMatrix[3] = -CameraDistance

\* C13 as stated: when the ticks with only strafe-right held sum to exactly one
\* second, the X translation has changed by exactly movementSensitivity (4.0), and
\* nothing else has changed.
C13_StrafeExactlyFour ==
    exact.t = F32One
    => (exact.x = -(movementSensitivity \div FP) * F32One /\ OnlyXMoved)

\* C13 as amended: when the ticks with only strafe-right held sum to exactly one
\* second, the X translation has changed by 4.0 up to the rounding of the float
\* additions, at most 2^-23 (8 units) for each tick, and nothing else has changed.
C13_StrafeFourWithinRounding ==
    exact.t = F32One
    => (/\ Abs(exact.x + (movementSensitivity \div FP) * F32One) <= 8 * m_frame
        /\ OnlyXMoved)

\* six ticks that sum to one second have moved X by something other than 4.0
C13_Witness ==
    /\ exact.t = F32One
    /\ m_frame = 6
    /\ exact.x # -(movementSensitivity \div FP) * F32One

\* the speed modifiers
Modifiers == {"Shift", "Ctrl"}

\* C20 as stated: in every tick the speed is movementSensitivity x sec, times 3 with
\* the increase-speed key, divided by 3 with the decrease-speed key; with both held
\* the strafe of that tick equals the strafe with neither held.
C20_ModifiersCancel ==
    [][m_frame' = m_frame + 1
       => (/\ exact'.speed = EffectiveSpeed32(m_pressedKeys, exact'.sec)
           /\ Modifiers \subseteq m_pressedKeys
              => exact'.x = Update32(exact, m_pressedKeys \ Modifiers, exact'.sec).x)]_vars

\* C20 as amended: in every tick the speed is movementSensitivity x sec, times 3 with
\* the increase-speed key, divided by 3 with the decrease-speed key, each result
\* rounded to float; with both held both are applied (x3, then /3), and the speed is
\* within one unit in the last place of the speed with neither held.
C20_ModifiersComposeWithinRounding ==
    [][m_frame' = m_frame + 1
       => LET s0 == (movementSensitivity \div FP) * exact'.sec
              shift == "Shift" \in m_pressedKeys
              ctrl == "Ctrl" \in m_pressedKeys
          IN /\ exact'.speed = CASE shift /\ ctrl -> F32Div3(F32(3 * s0))
                                 [] shift /\ ~ctrl -> F32(3 * s0)
                                 [] ~shift /\ ctrl -> F32Div3(s0)
                                 [] OTHER -> s0
             /\ (shift /\ ctrl) => Abs(exact'.speed - s0) <= Quantum(s0)
             /\ ("D" \in m_pressedKeys) => exact'.x = F32(exact.x - exact'.speed)]_vars

\* a first strafe with both modifiers held has moved X by a speed that is next to,
\* and not equal to, movementSensitivity x sec
C20_Witness ==
    /\ m_frame >= 1
    /\ exact.x = -exact.speed
    /\ exact.speed # (movementSensitivity \div FP) * exact.sec
    /\ Abs(exact.speed - (movementSensitivity \div FP) * exact.sec)
          <= Quantum((movementSensitivity \div FP) * exact.sec)

\* the unit cube has just been loaded in a 640 x 480 window
CubeLoaded ==
    /\ call.op = "loadModel"
    /\ call.sig # <<>>
    /\ m_currentModel = LoadModel("cube.obj")
    /\ width = 640
    /\ height = 480

\* C17 as stated: for the unit cube in a 640 x 480 window at 45 degrees, resetView
\* uses effectiveFOV = 45, modelSize = sqrt(3) (1.732) and the scale
\* 4 / (sqrt(3) / tan(45 degrees) x 1.6), to three decimals.
C17_CubeFitByTangent ==
    CubeLoaded
    => (/\ Min(fieldOfView, (fieldOfView * width) \div height) = 45 * FP
        /\ Length(m_currentModel.m_AABBMax) = 1732
        /\ Abs(m_scaleMatrix
               - FDiv(4 * FP, FMul(FDiv(1732, qTan(qDegreesToRadians(45 * FP))), 1600))) <= 2)

\* C17 as amended: for the unit cube in a 640 x 480 window at 45 degrees, resetView
\* uses effectiveFOV = 45, modelSize = sqrt(3) (1.732) and the scale
\* 4 / (sqrt(3) / atan(radians(45 degrees)) x 1.6) = 0.961, to three decimals.
C17_CubeFitByArctangent ==
    CubeLoaded
    => (/\ Min(fieldOfView, (fieldOfView * width) \div height) = 45 * FP
        /\ Length(m_currentModel.m_AABBMax) = 1732
        /\ Abs(m_scaleMatrix - 961) <= 2)

\* the unit cube has been loaded and fitted
C17_Witness == CubeLoaded /\ call.ret /\ Cam = ResetCamera(m_currentModel, width, height)

\* C18: with a valid model in a window of nonzero height, the camera resetView
\* leaves puts every corner of the bounding box inside the view frustum.
C18_BoxInFrustumAfterReset ==
    (/\ initialized
     /\ m_currentModel.m_isValid
     /\ height # 0
     /\ Cam = ResetCamera(m_currentModel, width, height))
    => \A p \in Corners(m_currentModel) : InFrustum(ModelPoint(Cam, p), width, height)

\* C19: resetView leaves translation (0, 0, -4), pitch 30, yaw 0 and a scale that is
\* a function of the current model and of the window size (1 without a valid model),
\* whatever the camera was before; called on the camera it leaves, it changes
\* nothing.
C19_ResetErasesHistory ==
    [][call'.op = "resetView"
       => (/\ m_transMatrix' = Vec(0, 0, -4 * FP)
           /\ rotY' = 30 * FP
           /\ rotX' = 0
           /\ m_scaleMatrix' = IF m_currentModel.m_isValid
                               THEN FitScale(m_currentModel, width, height) ELSE FP
           /\ call.op = "resetView" => UNCHANGED camera)]_vars

\* after two ticks with the strafe and spin keys held and a pointer, wheel or resize
\* event, resetView has run and the camera is the default one for the model
C19_Witness ==
    /\ call.op = "resetView"
    /\ m_frame = MaxFrames
    /\ {"D", "Right"} \subseteq m_pressedKeys
    /\ nInput = MaxInput
    /\ m_currentModel.m_isValid
    /\ Cam = ResetCamera(m_currentModel, width, height)

\* C21: the uniform scale factor stays strictly positive after any sequence of ticks
\* (any duration, any keys held) and wheel events (any angle delta).
C21_ScaleStaysPositive == m_scaleMatrix > 0

\* C22: the camera after a render tick is the function Update() of the camera before
\* it, the pressed keys and this tick's delta alone; the contents of the frame window
\* have no part in it.
C22_TransformIgnoresWindow ==
    [][m_frame' # m_frame
       => <<m_scaleMatrix', rotX', rotY', m_transMatrix'>>
          = LET c == UpdateCamera(Cam, m_pressedKeys, seconds')
            IN <<c.scale, c.rotX, c.rotY, c.trans>>]_vars

\* two ticks of different durations are in the window, strafe-right was held for the
\* last one only, and the camera has moved by that tick's delta alone
C22_Witness ==
    /\ m_frame >= 2
    /\ Len(m_frametimes) >= 2
    /\ m_frametimes[Len(m_frametimes) - 1] # m_frametimes[Len(m_frametimes)]
    /\ "D" \in m_pressedKeys
    /\ seconds > 0
    /\ m_transMatrix[1] = -FMul(movementSensitivity, seconds)

\* C23: every mouseMoveEvent leaves (lastX, lastY) at the event position whether or
\* not a button is held; a move with no button held, or with the pressed flag of the
\* held button false, changes nothing of the transform; the cursor is written by
\* presses and moves only, so a drag's delta is measured from the most recent press
\* or move position.
C23_MoveRecordsCursor ==
    [][/\ \A bs \in SUBSET Buttons, pos \in Positions :
             mouseMoveEvent(bs, pos)
             => /\ lastX' = pos[1]
                /\ lastY' = pos[2]
                /\ (/\ ~("Left" \in bs /\ m_leftMousePressed)
                    /\ ~("Right" \in bs /\ m_rightMousePressed)) => UNCHANGED camera
                /\ ("Left" \in bs /\ m_leftMousePressed)
                   => rotX' = rotX + (pos[1] - lastX) * xRotateSensitivity
       /\ (lastX' # lastX \/ lastY' # lastY)
          => \/ \E b \in Buttons, pos \in Positions : mousePressEvent(b, pos)
             \/ \E bs \in SUBSET Buttons, pos \in Positions : mouseMoveEvent(bs, pos)]_vars

\* two moves have followed a press of the left button: the cursor is at (0, 0), where
\* the last one ended, and the yaw is that of one drag of 100 pixels to the left
C23_Witness ==
    /\ nInput = 2
    /\ m_leftMousePressed
    /\ lastX = 0
    /\ lastY = 0
    /\ rotX = -100 * xRotateSensitivity
    /\ m_transMatrix = Vec(0, 0, -CameraDistance)

C25_UninitializedLoadsRefused ==
    [][/\ (/\ ~initialized
           /\ \/ \E path \in ModelPaths \cup {""}, dialog \in {"", "slab.obj"} :
                    loadModel(path, dialog)
              \/ \E dialog \in {"", "user.vert"}, partial \in BOOLEAN :
                    loadVertexShader("", dialog, partial)
              \/ \E dialog \in {"", "user.frag"}, partial \in BOOLEAN :
                    loadFragmentShader("", dialog, partial))
          => (/\ call'.ret = FALSE
              /\ call'.sig = <<>>
              /\ UNCHANGED <<initialized, m_currentModel, camera, shader>>)
       /\ initialized => initialized']_vars

\* a vertex shader load has returned before initializeGL() has run, after a zoom or
\* a resize: no program, no shader paths, no model
C25_Witness ==
    /\ ~initialized
    /\ call = [op |-> "loadVertexShader", ret |-> FALSE, sig |-> <<>>]
    /\ m_program = EmptyProgram
    /\ currentVertFile = ""
    /\ ~m_currentModel.m_isValid
    /\ nInput > 0

\* C26: the frame window is not empty after a render tick: the tick's delta is
\* appended before RenderText() computes the fps, and the pruning keeps at least
\* that newest entry, however long the frame was.
C26_WindowNeverEmpty ==
    [][m_frame' # m_frame
       => (/\ fps' \in FpsOf(Append(m_frametimes, seconds'))
           /\ Len(m_frametimes') >= 1
           /\ m_frametimes'[Len(m_frametimes')] = seconds')]_vars

\* a frame longer than the whole window has been ticked after a shorter one: the
\* window holds that one frame alone
C26_Witness ==
    /\ m_frame >= 2
    /\ seconds > FrameWindow
    /\ m_frametimes = <<seconds>>

====
